---- MODULE Spec2Model ----
(***************************************************************************)
(* A model of sempy_labs/_job_scheduler.py and sempy_labs/_notebooks.py:   *)
(* the schedule calls (create_item_schedule, update_item_schedule and the  *)
(* payload builder, list_item_schedules, get_item_schedule), the           *)
(* job-instance calls (list_item_job_instances, get_item_job_instance,     *)
(* run_on_demand_item_job) and the notebook calls (get_notebook_definition,*)
(* update_notebook_definition, import_notebook_from_web), each against a   *)
(* model of the remote service.                                            *)
(*                                                                         *)
(* Python values are tagged records, so that None, numbers, text, lists    *)
(* and dicts can be told apart: [t |-> "none"], [t |-> "int", v |-> n],    *)
(* [t |-> "bool", v |-> b], [t |-> "str", v |-> s], [t |-> "list", v |->   *)
(* seq], [t |-> "dict", v |-> function from keys to values].  Text the     *)
(* code looks into (schedule_config_type, times, the Location header, a    *)
(* URL, a path, a base64 payload) is a sequence of one-character strings;  *)
(* text the code only passes on (ids, names, statuses) is an opaque        *)
(* string.                                                                 *)
(***************************************************************************)
EXTENDS Integers, Sequences, FiniteSets, TLC

VARIABLES
    args,       \* the arguments of the calls of this behaviour
    op,         \* the call in progress, "idle" between calls
    pc,         \* the position of the call in progress in its body (an index)
    payload,    \* the request payload the call has built, None before
    calls,      \* the requests and notices of the call in progress, in order
    outcome,    \* "running", "returned" or the exception the call raised
    result,     \* the value the call returned, None before
    remote,     \* the remote service: the item's schedules, in creation order
    remote0,    \* the remote schedules when the call in progress began
    instances,  \* the remote service: the pages of the job-instance listing
    target,     \* the schedule or job instance id a call addresses
    cur_type,   \* the item type the call in progress works with, None before
    response,   \* the response of the last request of the call, None before
    notebooks   \* the remote service: the notebooks of the workspace

vars == <<args, op, pc, payload, calls, outcome, result, remote, remote0,
          instances, target, cur_type, response, notebooks>>

----------------------------------------------------------------------------
(* Bounds of the model. *)

\* how far around each end of the interval range the interval argument is drawn
IntervalMargin == 1
\* how far around the times limit the length of the times argument is drawn
TimesMargin == 1
\* the number of schedules the remote service holds at most
MaxSchedules == 1
\* the number of pages of a job-instance listing, at most
MaxPages == 2
\* the number of job instances on one page, at most
MaxRows == 1

(* Constants of the program. *)
MinInterval == 1
MaxInterval == 5270400
TimesLimit == 100

----------------------------------------------------------------------------
(* Python values. *)

None == [t |-> "none"]
PyInt(n) == [t |-> "int", v |-> n]
PyBool(b) == [t |-> "bool", v |-> b]
PyStr(s) == [t |-> "str", v |-> s]
PyList(xs) == [t |-> "list", v |-> xs]
PyDict(f) == [t |-> "dict", v |-> f]

EmptyDict == PyDict([k \in {} |-> None])

\* d.get(k, default) on a dict
DictGet(d, k, default) == IF k \in DOMAIN d.v THEN d.v[k] ELSE default

\* d[k] = x on a dict
DictSet(d, k, x) ==
    PyDict([j \in (DOMAIN d.v) \cup {k} |-> IF j = k THEN x ELSE d.v[j]])

\* bool(x): None, an empty list, dict or text, 0 and False are false
Truthy(x) ==
    CASE x.t = "none" -> FALSE
      [] x.t = "int"  -> x.v # 0
      [] x.t = "bool" -> x.v
      [] x.t = "str"  -> x.v # <<>>
      [] x.t = "list" -> Len(x.v) > 0
      [] x.t = "dict" -> DOMAIN x.v # {}

----------------------------------------------------------------------------
(* Text. *)

UpperToLower ==
    [c \in {"A","B","C","D","E","F","G","H","I","J","K","L","M","N","O","P",
            "Q","R","S","T","U","V","W","X","Y","Z"} |->
        CASE c = "A" -> "a" [] c = "B" -> "b" [] c = "C" -> "c" [] c = "D" -> "d"
          [] c = "E" -> "e" [] c = "F" -> "f" [] c = "G" -> "g" [] c = "H" -> "h"
          [] c = "I" -> "i" [] c = "J" -> "j" [] c = "K" -> "k" [] c = "L" -> "l"
          [] c = "M" -> "m" [] c = "N" -> "n" [] c = "O" -> "o" [] c = "P" -> "p"
          [] c = "Q" -> "q" [] c = "R" -> "r" [] c = "S" -> "s" [] c = "T" -> "t"
          [] c = "U" -> "u" [] c = "V" -> "v" [] c = "W" -> "w" [] c = "X" -> "x"
          [] c = "Y" -> "y" [] c = "Z" -> "z"]

\* s.lower()
Lower(s) ==
    [i \in 1..Len(s) |-> IF s[i] \in DOMAIN UpperToLower THEN UpperToLower[s[i]]
                         ELSE s[i]]

RECURSIVE Split(_, _)
\* s.split(sep) for a one-character sep: the pieces between the separators.
\* The pieces of a text are those of its two halves, the last piece of the
\* first half and the first piece of the second being one piece.
Split(s, sep) ==
    IF Len(s) = 0 THEN << <<>> >>
    ELSE IF Len(s) = 1 THEN (IF s[1] = sep THEN << <<>>, <<>> >> ELSE << s >>)
    ELSE LET half == Len(s) \div 2
             a == Split(SubSeq(s, 1, half), sep)
             b == Split(SubSeq(s, half + 1, Len(s)), sep)
         IN  SubSeq(a, 1, Len(a) - 1) \o << a[Len(a)] \o b[1] >> \o Tail(b)

\* repr(x) of a text without quotes in it: the text between single quotes
Repr(x) == <<"'">> \o x.v \o <<"'">>

RECURSIVE JoinRepr(_)
\* ", ".join(repr(x) for x in xs)
JoinRepr(xs) ==
    IF Len(xs) = 0 THEN <<>>
    ELSE IF Len(xs) = 1 THEN Repr(xs[1])
    ELSE LET half == Len(xs) \div 2
         IN  JoinRepr(SubSeq(xs, 1, half)) \o <<",", " ">>
                 \o JoinRepr(SubSeq(xs, half + 1, Len(xs)))

\* str(x) of None, a text or a list of texts
Str(x) ==
    CASE x.t = "none" -> <<"N", "o", "n", "e">>
      [] x.t = "str"  -> x.v
      [] x.t = "list" -> <<"[">> \o JoinRepr(x.v) \o <<"]">>

\* a character of a text as json.dumps writes it
JsonChar(c) ==
    IF c = "\"" THEN <<"\\", "\"">>
    ELSE IF c = "\\" THEN <<"\\", "\\">>
    ELSE <<c>>

RECURSIVE JsonChars(_)
\* the characters of a text as json.dumps writes them
JsonChars(s) ==
    IF Len(s) = 0 THEN <<>>
    ELSE IF Len(s) = 1 THEN JsonChar(s[1])
    ELSE LET half == Len(s) \div 2
         IN  JsonChars(SubSeq(s, 1, half)) \o JsonChars(SubSeq(s, half + 1, Len(s)))

\* json.dumps(x) of a text: the text between double quotes
JsonText(x) == <<"\"">> \o JsonChars(x.v) \o <<"\"">>

RECURSIVE JoinJson(_)
\* ", ".join(json.dumps(x) for x in xs)
JoinJson(xs) ==
    IF Len(xs) = 0 THEN <<>>
    ELSE IF Len(xs) = 1 THEN JsonText(xs[1])
    ELSE LET half == Len(xs) \div 2
         IN  JoinJson(SubSeq(xs, 1, half)) \o <<",", " ">>
                 \o JoinJson(SubSeq(xs, half + 1, Len(xs)))

\* json.dumps(x) of None, a text or a list of texts
JsonDumps(x) ==
    CASE x.t = "none" -> <<"n", "u", "l", "l">>
      [] x.t = "str"  -> JsonText(x)
      [] x.t = "list" -> <<"[">> \o JoinJson(x.v) \o <<"]">>

----------------------------------------------------------------------------
(* The schedule calls: validation and payload. *)

\* valid_types of create_item_schedule and update_item_schedule
valid_types ==
    { <<"c","r","o","n">>, <<"d","a","i","l","y">>, <<"w","e","e","k","l","y">> }

\* the first check without the lower-casing: a type is compared as written
TypeRejected_as_written(schedule_config_type) ==
    schedule_config_type.v \notin valid_types

\* the first check: schedule_config_type.lower() not in valid_types
TypeRejected(schedule_config_type) ==
    Lower(schedule_config_type.v) \notin valid_types

\* the second check with the lower end of the range taken off: interval <= 1
IntervalCheck_low_end_off(interval) ==
    IF interval # None /\ interval.v <= MinInterval THEN "raise"
    ELSE IF interval = None THEN "TypeError"
    ELSE IF interval.v > MaxInterval THEN "raise"
    ELSE "pass"

\* the second check, "interval is not None and interval < 1 or interval > 5270400",
\* which Python reads as (interval is not None and interval < 1) or
\* (interval > 5270400): "raise" when it is true, "TypeError" when its second
\* comparison is made on None, "pass" when it is false
IntervalCheck(interval) ==
    IF interval # None /\ interval.v < MinInterval THEN "raise"
    ELSE IF interval = None THEN "TypeError"
    ELSE IF interval.v > MaxInterval THEN "raise"
    ELSE "pass"

\* the third check: len(str(times).split('.')) > 100
TimesRejected(times) == Len(Split(Str(times), ".")) > TimesLimit

\* the three checks in the order of the code: the exception raised, or "ok"
Validate(schedule_config_type, interval, times) ==
    IF TypeRejected(schedule_config_type) THEN "ValueError: Type"
    ELSE IF IntervalCheck(interval) = "raise" THEN "ValueError: Interval"
    ELSE IF IntervalCheck(interval) = "TypeError" THEN "TypeError"
    ELSE IF TimesRejected(times) THEN "ValueError: times"
    ELSE "ok"

\* checks of update_item_schedule that leave the interval unchecked
update_item_schedule_checks_interval_unchecked(schedule_config_type, interval, times) ==
    IF TypeRejected(schedule_config_type) THEN "ValueError: Type"
    ELSE IF TimesRejected(times) THEN "ValueError: times"
    ELSE "ok"

\* the three checks of update_item_schedule in the order of the code: the
\* exception raised, or "ok"
update_item_schedule_checks(schedule_config_type, interval, times) ==
    IF TypeRejected(schedule_config_type) THEN "ValueError: Type"
    ELSE IF IntervalCheck(interval) = "raise" THEN "ValueError: Interval"
    ELSE IF IntervalCheck(interval) = "TypeError" THEN "TypeError"
    ELSE IF TimesRejected(times) THEN "ValueError: times"
    ELSE "ok"

\* a payload builder that sets the interval key whatever the type
create_item_schedule_payload_interval_kept(enabled, start_date_time, end_date_time, local_time_zone_id, schedule_config_type, interval, weekdays, times) ==
    LET configuration ==
            PyDict([startDateTime |-> start_date_time,
                    endDateTime |-> end_date_time,
                    localTimeZoneId |-> local_time_zone_id,
                    type |-> schedule_config_type,
                    interval |-> interval])
        kind == Lower(schedule_config_type.v)
        shaped ==
            CASE kind = <<"d","a","i","l","y">> ->
                    DictSet(configuration, "times", PyStr(Str(times)))
              [] kind = <<"w","e","e","k","l","y">> ->
                    DictSet(DictSet(configuration, "times", times),
                            "weekdays", weekdays)
              [] OTHER -> configuration
    IN  PyDict([enabled |-> enabled, configuration |-> shaped])

\* __create_item_schedule_payload
create_item_schedule_payload(enabled, start_date_time, end_date_time, local_time_zone_id, schedule_config_type, interval, weekdays, times) ==
    LET configuration ==
            PyDict([startDateTime |-> start_date_time,
                    endDateTime |-> end_date_time,
                    localTimeZoneId |-> local_time_zone_id,
                    type |-> schedule_config_type])
        kind == Lower(schedule_config_type.v)
        shaped ==
            CASE kind = <<"c","r","o","n">> ->
                    DictSet(configuration, "interval", interval)
              [] kind = <<"d","a","i","l","y">> ->
                    DictSet(configuration, "times", PyStr(Str(times)))
              [] kind = <<"w","e","e","k","l","y">> ->
                    DictSet(DictSet(configuration, "times", times),
                            "weekdays", weekdays)
              [] OTHER -> configuration
    IN  PyDict([enabled |-> enabled, configuration |-> shaped])

\* a body of create_item_schedule that checks its arguments after the request
create_item_schedule_steps_checked_late ==
    <<"payload", "resolve", "request", "validate">>

\* the body of create_item_schedule, step by step
create_item_schedule_steps == <<"validate", "payload", "resolve", "request">>

\* the body of update_item_schedule, step by step
update_item_schedule_steps == <<"validate", "payload", "resolve", "request">>

----------------------------------------------------------------------------
(* The arguments the schedule calls are made with. *)

Digit(d) == <<"0","1","2","3","4","5","6","7","8","9">>[d + 1]

\* n as two decimal digits
TwoDigits(n) == <<Digit(n \div 10), Digit(n % 10)>>

\* the i-th time slot, as hh:mm (sep = ":") or in a dotted form (sep = ".")
Slot(i, sep) == PyStr(TwoDigits((i \div 60) % 24) \o <<sep>> \o TwoDigits(i % 60))

\* a times list of n time slots
TimesOfLen(n, sep) == PyList([i \in 1..n |-> Slot(i, sep)])

TimesLengths == {1} \cup ((TimesLimit - TimesMargin)..(TimesLimit + TimesMargin))

HhMmTimes == {TimesOfLen(n, ":") : n \in TimesLengths}

DottedTimes == {TimesOfLen(n, ".") : n \in TimesLengths}

TimesInputs == {None, Slot(1, ":")} \cup HhMmTimes \cup DottedTimes

IntervalInputs ==
    {None} \cup
    {PyInt(n) : n \in ((MinInterval - IntervalMargin)..(MinInterval + IntervalMargin))
                      \cup ((MaxInterval - IntervalMargin)..(MaxInterval + IntervalMargin))}

TypeInputs ==
    {PyStr(s) : s \in { <<"c","r","o","n">>, <<"C","r","o","n">>,
                        <<"D","A","I","L","Y">>, <<"W","e","e","k","l","y">>,
                        <<"m","o","n","t","h","l","y">> }}

WeekdaysInputs == {None, PyStr("Monday")}

EnabledInputs == {PyBool(TRUE), PyBool(FALSE)}

ScheduleArgs ==
    [schedule_config_type : TypeInputs, interval : IntervalInputs,
     times : TimesInputs, weekdays : WeekdaysInputs, enabled : EnabledInputs,
     start_date_time : {PyStr("2025-01-01T00:00:00")},
     end_date_time : {PyStr("2025-12-31T23:59:00")},
     local_time_zone_id : {PyStr("UTC")}]

----------------------------------------------------------------------------
(* The remote service, as the schedule calls see it. *)

\* the id the service gives its n-th schedule
ScheduleId(n) == <<"s", "-">> \o <<Digit(n)>>

\* the Location header of the 201 response that created schedule id
Location(id) ==
    <<"h","t","t","p","s",":","/","/","a","p","i","/","v","1","/",
      "s","c","h","e","d","u","l","e","s","/">> \o id

\* a response of the service: its status and its headers
Response(status, headers) == [status |-> status, headers |-> headers]

\* the 201 response of the service to the POST that created schedule id
Created(id) == Response(201, PyDict([Location |-> PyStr(Location(id))]))

\* a reading of the Location header that takes the text before the first "/"
LastSegment_first_segment(resp) ==
    LET parts == Split(DictGet(resp.headers, "Location", None).v, "/")
    IN  PyStr(parts[1])

\* response.headers.get("Location").split("/")[-1]
LastSegment(resp) ==
    LET parts == Split(DictGet(resp.headers, "Location", None).v, "/")
    IN  PyStr(parts[Len(parts)])

\* one network call, as the call log keeps it
NetCall(method, request, body) ==
    [method |-> method, request |-> request, payload |-> body]

\* a network call on one schedule, as the call log keeps it
ScheduleCall(method, id, body) ==
    [method |-> method, request |-> "schedules/id", payload |-> body, id |-> id]

MutatingMethods == {"post", "patch"}

\* whether the call in progress has sent a POST or a PATCH
Mutated == \E i \in 1..Len(calls) : calls[i].method \in MutatingMethods

\* resolve_workspace_name_and_id and resolve_item_name_and_id: the two lookups
Resolutions ==
    << NetCall("get", "workspaces", None), NetCall("get", "items", None) >>

\* the lookups made when one of the two raises: resolve_workspace_name_and_id
\* comes first, and resolve_item_name_and_id is not reached when it raises
FailedResolutions == { SubSeq(Resolutions, 1, k) : k \in 1..Len(Resolutions) }

\* the schedules after the service has stored body under a new id
StoreNew(schedules, body) ==
    Append(schedules, [id |-> ScheduleId(Len(schedules) + 1), body |-> body])

\* the schedules after the service has replaced the whole of schedule id by body
StoreOver(schedules, id, body) ==
    [i \in 1..Len(schedules) |->
        IF schedules[i].id = id THEN [id |-> id, body |-> body] ELSE schedules[i]]

ScheduleIds(schedules) == {schedules[i].id : i \in 1..Len(schedules)}

----------------------------------------------------------------------------
(* The schedule calls, step by step. *)

ScheduleOps == {"create_item_schedule", "update_item_schedule"}

Steps(o) ==
    IF o = "create_item_schedule" THEN create_item_schedule_steps
    ELSE update_item_schedule_steps

\* the call in progress is at the step called name
AtStep(name) ==
    /\ op \in ScheduleOps
    /\ outcome = "running"
    /\ pc \in 1..Len(Steps(op))
    /\ Steps(op)[pc] = name

\* the step is done: on to the next one, or the call returns
Advance ==
    /\ pc' = pc + 1
    /\ outcome' = IF pc = Len(Steps(op)) THEN "returned" ELSE "running"

ScheduleInit ==
    /\ args \in ScheduleArgs
    /\ op = "idle"
    /\ pc = 0
    /\ payload = None
    /\ calls = <<>>
    /\ outcome = "idle"
    /\ result = None
    /\ remote = <<>>
    /\ remote0 = <<>>
    /\ instances = <<>>
    /\ target = None
    /\ cur_type = None
    /\ response = None
    /\ notebooks = <<>>

\* the caller calls create_item_schedule
BeginCreate ==
    /\ op = "idle"
    /\ "schedule_config_type" \in DOMAIN args
    /\ Len(remote) < MaxSchedules
    /\ op' = "create_item_schedule"
    /\ pc' = 1
    /\ outcome' = "running"
    /\ remote0' = remote
    /\ target' = None
    /\ UNCHANGED <<args, payload, calls, result, remote, instances, cur_type, response, notebooks>>

\* the caller calls update_item_schedule on a schedule id, known to the
\* service or not
BeginUpdate ==
    /\ op = "idle"
    /\ "schedule_config_type" \in DOMAIN args
    /\ \E id \in ScheduleIds(remote) \cup {ScheduleId(0)} : target' = PyStr(id)
    /\ op' = "update_item_schedule"
    /\ pc' = 1
    /\ outcome' = "running"
    /\ remote0' = remote
    /\ UNCHANGED <<args, payload, calls, result, remote, instances, cur_type, response, notebooks>>

\* the three checks: the call goes on, or ends with the exception raised
ValidateStep ==
    /\ AtStep("validate")
    /\ LET v == IF op = "update_item_schedule"
                THEN update_item_schedule_checks(
                         args.schedule_config_type, args.interval, args.times)
                ELSE Validate(args.schedule_config_type, args.interval, args.times)
       IN  IF v = "ok" THEN Advance ELSE pc' = pc /\ outcome' = v
    /\ UNCHANGED <<args, op, payload, calls, result, remote, remote0, instances, target, cur_type, response, notebooks>>

\* payload = __create_item_schedule_payload(...)
PayloadStep ==
    /\ AtStep("payload")
    /\ payload' = create_item_schedule_payload(
                      args.enabled, args.start_date_time, args.end_date_time,
                      args.local_time_zone_id, args.schedule_config_type,
                      args.interval, args.weekdays, args.times)
    /\ Advance
    /\ UNCHANGED <<args, op, calls, result, remote, remote0, instances, target, cur_type, response, notebooks>>

\* the workspace and the item are resolved
ResolveStep ==
    /\ AtStep("resolve")
    /\ calls' = calls \o Resolutions
    /\ Advance
    /\ UNCHANGED <<args, op, payload, result, remote, remote0, instances, target, cur_type, response, notebooks>>

\* the workspace or the item is not found: the lookup raises
ResolveFails ==
    /\ AtStep("resolve")
    /\ \E made \in FailedResolutions : calls' = calls \o made
    /\ pc' = pc
    /\ outcome' = "NotFound"
    /\ UNCHANGED <<args, op, payload, result, remote, remote0, instances, target, cur_type, response, notebooks>>

\* create_item_schedule's POST is answered 201: the service has stored the
\* schedule, and the call returns the last segment of the Location header
CreateRequest ==
    /\ AtStep("request")
    /\ op = "create_item_schedule"
    /\ calls' = Append(calls, NetCall("post", "schedules", payload))
    /\ remote' = StoreNew(remote, payload)
    /\ response' = Created(ScheduleId(Len(remote) + 1))
    /\ result' = LastSegment(response')
    /\ Advance
    /\ UNCHANGED <<args, op, payload, remote0, instances, target, cur_type, notebooks>>

\* update_item_schedule's PATCH is answered 200: the service has replaced the
\* schedule
UpdateRequest ==
    /\ AtStep("request")
    /\ op = "update_item_schedule"
    /\ target.v \in ScheduleIds(remote)
    /\ calls' = Append(calls, ScheduleCall("patch", target, payload))
    /\ remote' = StoreOver(remote, target.v, payload)
    /\ Advance
    /\ UNCHANGED <<args, op, payload, result, remote0, instances, target, cur_type, response, notebooks>>

\* the request is answered with another status than the expected one (the
\* schedule id is unknown, the service refuses): _base_api raises
RequestFails ==
    /\ AtStep("request")
    /\ op = "update_item_schedule" => target.v \notin ScheduleIds(remote)
    /\ calls' = Append(calls, IF op = "create_item_schedule"
                              THEN NetCall("post", "schedules", payload)
                              ELSE ScheduleCall("patch", target, payload))
    /\ pc' = pc
    /\ outcome' = "FabricHTTPException"
    /\ UNCHANGED <<args, op, payload, result, remote, remote0, instances, target, cur_type, response, notebooks>>

\* the call has ended, by a return or an exception: the caller has the outcome
Finish ==
    /\ op # "idle"
    /\ outcome # "running"
    /\ op' = "idle"
    /\ pc' = 0
    /\ payload' = None
    /\ calls' = <<>>
    /\ outcome' = "idle"
    /\ result' = None
    /\ target' = None
    /\ remote0' = remote
    /\ cur_type' = None
    /\ response' = None
    /\ UNCHANGED <<args, remote, instances, notebooks>>

----------------------------------------------------------------------------
(* Tables. *)

\* the names of the columns of a column map, in order
ColumnNames(columns) == [i \in 1..Len(columns) |-> columns[i][1]]

\* _create_dataframe(columns): a table of no rows with the declared columns
CreateDataframe(columns) == [columns |-> ColumnNames(columns), rows |-> <<>>]

\* _update_dataframe_datatypes(dataframe, column_map): the table with its
\* columns typed; the texts and the nulls of the rows stay what they are
UpdateDataframeDatatypes(dataframe, columns) == dataframe

\* pd.concat of one-row frames built from rows: the rows in order, under the
\* columns of the rows
Concat(columns, rows) == [columns |-> ColumnNames(columns), rows |-> rows]

----------------------------------------------------------------------------
(* The schedule calls that read: list_item_schedules and get_item_schedule. *)

\* the columns of list_item_schedules and get_item_schedule, with their types
ScheduleColumns ==
    << <<"Job Schedule Id", "string">>, <<"Enabled", "bool">>,
       <<"Created Date Time", "datetime">>, <<"Start Date Time", "datetime">>,
       <<"End Date Time", "string">>, <<"Local Time Zone Id", "string">>,
       <<"Type", "string">>, <<"Interval", "int_fillna">>,
       <<"Weekdays", "string">>, <<"Times", "string">>,
       <<"Owner Id", "string">>, <<"Owner Type", "string">> >>

\* new_data: the row of schedule v
ScheduleRow(v) ==
    LET config == DictGet(v, "configuration", EmptyDict)
        own == DictGet(v, "owner", EmptyDict)
    IN  [c \in {"Job Schedule Id", "Enabled", "Created Date Time",
                "Start Date Time", "End Date Time", "Local Time Zone Id",
                "Type", "Interval", "Weekdays", "Times", "Owner Id",
                "Owner Type"} |->
            CASE c = "Job Schedule Id"    -> DictGet(v, "id", None)
              [] c = "Enabled"            -> DictGet(v, "enabled", None)
              [] c = "Created Date Time"  -> DictGet(v, "createdDateTime", None)
              [] c = "Start Date Time"    -> DictGet(config, "startDateTime", None)
              [] c = "End Date Time"      -> DictGet(config, "endDateTime", None)
              [] c = "Local Time Zone Id" -> DictGet(config, "localTimeZoneId", None)
              [] c = "Type"               -> DictGet(config, "type", None)
              [] c = "Interval"           -> DictGet(config, "interval", None)
              [] c = "Weekdays"           -> DictGet(config, "weekdays", None)
              [] c = "Times"              ->
                    PyStr(JsonDumps(DictGet(config, "times", None)))
              [] c = "Owner Id"           -> DictGet(own, "id", None)
              [] c = "Owner Type"         -> DictGet(own, "type", None)]

\* get_item_schedule, from the body of the GET on
get_item_schedule(v) ==
    LET df == CreateDataframe(ScheduleColumns)
    IN  UpdateDataframeDatatypes(
            [columns |-> df.columns, rows |-> df.rows \o <<ScheduleRow(v)>>],
            ScheduleColumns)

\* list_item_schedules, from the body of the GET on
list_item_schedules(body) ==
    LET df == CreateDataframe(ScheduleColumns)
        value == DictGet(body, "value", PyList(<<>>)).v
    IN  UpdateDataframeDatatypes(
            [columns |-> df.columns,
             rows |-> df.rows \o [i \in 1..Len(value) |-> ScheduleRow(value[i])]],
            ScheduleColumns)

\* the schedule as the service answers it: the body it has stored, with the
\* id it gave
Echo(schedule) == DictSet(schedule.body, "id", PyStr(schedule.id))

\* the body of the service's answer to the GET on the schedules collection
Collection(schedules) ==
    PyDict([value |-> PyList([i \in 1..Len(schedules) |-> Echo(schedules[i])])])

ScheduleReadOps == {"list_item_schedules", "get_item_schedule"}

\* the caller calls list_item_schedules
BeginListSchedules ==
    /\ op = "idle"
    /\ "schedule_config_type" \in DOMAIN args
    /\ op' = "list_item_schedules"
    /\ pc' = 1
    /\ outcome' = "running"
    /\ target' = None
    /\ UNCHANGED <<args, payload, calls, result, remote, remote0, instances, cur_type, response, notebooks>>

\* the caller calls get_item_schedule on a schedule id, known to the service
\* or not
BeginGetSchedule ==
    /\ op = "idle"
    /\ "schedule_config_type" \in DOMAIN args
    /\ \E id \in ScheduleIds(remote) \cup {ScheduleId(0)} : target' = PyStr(id)
    /\ op' = "get_item_schedule"
    /\ pc' = 1
    /\ outcome' = "running"
    /\ UNCHANGED <<args, payload, calls, result, remote, remote0, instances, cur_type, response, notebooks>>

\* the workspace and the item are resolved
ReadResolve ==
    /\ op \in ScheduleReadOps
    /\ outcome = "running"
    /\ pc = 1
    /\ calls' = calls \o Resolutions
    /\ pc' = 2
    /\ UNCHANGED <<args, op, payload, outcome, result, remote, remote0, instances, target, cur_type, response, notebooks>>

\* the workspace or the item is not found: the lookup raises
ReadResolveFails ==
    /\ op \in ScheduleReadOps
    /\ outcome = "running"
    /\ pc = 1
    /\ \E made \in FailedResolutions : calls' = calls \o made
    /\ outcome' = "NotFound"
    /\ UNCHANGED <<args, op, pc, payload, result, remote, remote0, instances, target, cur_type, response, notebooks>>

\* list_item_schedules: the GET is answered with the schedules of the item,
\* and the table is built from them
ListSchedulesRequest ==
    /\ op = "list_item_schedules"
    /\ outcome = "running"
    /\ pc = 2
    /\ calls' = Append(calls, NetCall("get", "schedules", None))
    /\ result' = list_item_schedules(Collection(remote))
    /\ pc' = 3
    /\ outcome' = "returned"
    /\ UNCHANGED <<args, op, payload, remote, remote0, instances, target, cur_type, response, notebooks>>

\* get_item_schedule: the GET is answered with the schedule, and the one-row
\* table is built from it
GetScheduleRequest ==
    /\ op = "get_item_schedule"
    /\ outcome = "running"
    /\ pc = 2
    /\ \E i \in 1..Len(remote) :
          /\ remote[i].id = target.v
          /\ result' = get_item_schedule(Echo(remote[i]))
    /\ calls' = Append(calls, ScheduleCall("get", target, None))
    /\ pc' = 3
    /\ outcome' = "returned"
    /\ UNCHANGED <<args, op, payload, remote, remote0, instances, target, cur_type, response, notebooks>>

\* list_item_schedules, get_item_schedule: the GET is answered with another
\* status than 200 (the schedule id is unknown, the service refuses) and
\* _base_api raises
ReadRequestFails ==
    /\ op \in ScheduleReadOps
    /\ outcome = "running"
    /\ pc = 2
    /\ op = "get_item_schedule" => target.v \notin ScheduleIds(remote)
    /\ calls' = Append(calls, IF op = "get_item_schedule"
                              THEN ScheduleCall("get", target, None)
                              ELSE NetCall("get", "schedules", None))
    /\ outcome' = "FabricHTTPException"
    /\ UNCHANGED <<args, op, pc, payload, result, remote, remote0, instances, target, cur_type, response, notebooks>>

ScheduleNext ==
    \/ BeginListSchedules
    \/ BeginGetSchedule
    \/ ReadResolve
    \/ ReadResolveFails
    \/ ListSchedulesRequest
    \/ GetScheduleRequest
    \/ ReadRequestFails
    \/ BeginCreate
    \/ BeginUpdate
    \/ ValidateStep
    \/ PayloadStep
    \/ ResolveStep
    \/ ResolveFails
    \/ CreateRequest
    \/ UpdateRequest
    \/ RequestFails
    \/ Finish

----------------------------------------------------------------------------
(* The job-instance calls. *)

\* the columns of list_item_job_instances and get_item_job_instance, with
\* their types
JobInstanceColumns ==
    << <<"Job Instance Id", "string">>, <<"Item Name", "string">>,
       <<"Item Id", "string">>, <<"Item Type", "string">>,
       <<"Job Type", "string">>, <<"Invoke Type", "string">>,
       <<"Status", "string">>, <<"Root Activity Id", "string">>,
       <<"Start Time UTC", "datetime">>, <<"End Time UTC", "string">>,
       <<"Error Message", "string">> >>

\* new_data: the row of job instance v
JobInstanceRow(v, item_name, item_type) ==
    LET fail == DictGet(v, "failureReason", EmptyDict)
    IN  [c \in {"Job Instance Id", "Item Name", "Item Id", "Item Type",
                "Job Type", "Invoke Type", "Status", "Root Activity Id",
                "Start Time UTC", "End Time UTC", "Error Message"} |->
            CASE c = "Job Instance Id"  -> DictGet(v, "id", None)
              [] c = "Item Name"        -> item_name
              [] c = "Item Id"          -> DictGet(v, "itemId", None)
              [] c = "Item Type"        -> item_type
              [] c = "Job Type"         -> DictGet(v, "jobType", None)
              [] c = "Invoke Type"      -> DictGet(v, "invokeType", None)
              [] c = "Status"           -> DictGet(v, "status", None)
              [] c = "Root Activity Id" -> DictGet(v, "rootActivityId", None)
              [] c = "Start Time UTC"   -> DictGet(v, "startTimeUtc", None)
              [] c = "End Time UTC"     -> DictGet(v, "endTimeUtc", None)
              [] c = "Error Message"    ->
                    IF fail # None THEN DictGet(fail, "message", None)
                    ELSE PyStr("")]

RECURSIVE RowsOfPages(_, _, _)
\* dfs: for r in responses, for v in r.get("value", []), the row of v
RowsOfPages(responses, item_name, item_type) ==
    IF Len(responses) = 0 THEN <<>>
    ELSE LET value == DictGet(responses[1], "value", PyList(<<>>))
         IN  [i \in 1..Len(value.v) |->
                 JobInstanceRow(value.v[i], item_name, item_type)]
             \o RowsOfPages(Tail(responses), item_name, item_type)

\* a list_item_job_instances whose early return is a bare table, without the
\* declared columns
list_item_job_instances_bare_early_return(responses, item_name, item_type) ==
    IF ~Truthy(DictGet(responses[1], "value", None))
    THEN [columns |-> <<>>, rows |-> <<>>]
    ELSE LET dfs == RowsOfPages(responses, item_name, item_type)
             df == IF Len(dfs) > 0 THEN Concat(JobInstanceColumns, dfs)
                   ELSE CreateDataframe(JobInstanceColumns)
         IN  UpdateDataframeDatatypes(df, JobInstanceColumns)

\* list_item_job_instances, from the pages of the paginated GET on
list_item_job_instances(responses, item_name, item_type) ==
    IF ~Truthy(DictGet(responses[1], "value", None))
    THEN CreateDataframe(JobInstanceColumns)
    ELSE LET dfs == RowsOfPages(responses, item_name, item_type)
             df == IF Len(dfs) > 0 THEN Concat(JobInstanceColumns, dfs)
                   ELSE CreateDataframe(JobInstanceColumns)
         IN  UpdateDataframeDatatypes(df, JobInstanceColumns)

\* get_item_job_instance, from the body of the GET on
get_item_job_instance(v, item_name, item_type) ==
    LET df == CreateDataframe(JobInstanceColumns)
        row == JobInstanceRow(v, item_name, item_type)
    IN  UpdateDataframeDatatypes(
            [columns |-> df.columns, rows |-> df.rows \o <<row>>],
            JobInstanceColumns)

----------------------------------------------------------------------------
(* The remote service, as the job-instance calls see it. *)

\* the item of the job-instance calls, in the remote item catalog
CatalogItemName == PyStr("nb")
CatalogItemType == PyStr("Notebook")

\* the id of the i-th job instance of page p
InstanceId(p, i) == PyStr(<<"j", "-", Digit(p), Digit(i)>>)

FailureKinds == <<"absent", "null", "object">>

\* a job instance as the service reports it: without a failureReason key, with
\* a null failureReason, or with a failureReason object
Instance(p, i, kind) ==
    LET base == PyDict([id |-> InstanceId(p, i), itemId |-> PyStr("item-1"),
                        jobType |-> PyStr("RunNotebook"),
                        invokeType |-> PyStr("Manual"),
                        status |-> PyStr(IF kind = "object" THEN "Failed"
                                         ELSE "Completed"),
                        rootActivityId |-> PyStr("root-1"),
                        startTimeUtc |-> PyStr("2025-01-01T00:00:00"),
                        endTimeUtc |-> PyStr("2025-01-01T00:05:00")])
    IN  CASE kind = "absent" -> base
          [] kind = "null"   -> DictSet(base, "failureReason", None)
          [] kind = "object" ->
                DictSet(base, "failureReason",
                        PyDict([errorCode |-> PyStr("JobFailed"),
                                message |-> PyStr("boom")]))

\* the pages the service may answer as page p: without a value key, or with a
\* value array of no to MaxRows job instances, whose failure kinds go round
\* from the one numbered shift on
PagesAt(p, shift) ==
    {EmptyDict} \cup
    {PyDict([value |-> PyList([i \in 1..n |->
                Instance(p, i, FailureKinds[((p + i + shift) % 3) + 1])])]) :
        n \in 0..MaxRows}

\* the listings of one to MaxPages pages
Listings ==
    UNION {{l \in [1..n -> UNION {PagesAt(p, shift) : p \in 1..n}] :
              \A p \in 1..n : l[p] \in PagesAt(p, shift)} :
           <<n, shift>> \in (1..MaxPages) \X (0..2)}

RECURSIVE InstancesOf(_)
\* the job instances of the pages, in page order
InstancesOf(pages) ==
    IF Len(pages) = 0 THEN <<>>
    ELSE DictGet(pages[1], "value", PyList(<<>>)).v \o InstancesOf(Tail(pages))

\* the caller gives no item type, the catalog's, or another one
JobArgs ==
    [item : {CatalogItemName}, item_type : {None, CatalogItemType, PyStr("Pipeline")}]

\* the ids the service may give the job instance of an on-demand run
RunIds ==
    { <<"a","b","c","-","1","2","3">>, <<"j","-","9">>,
      <<"7","f","3","e","4","d","2","a">> }

\* the Location header of the 202 response that accepted the run as job
\* instance id
RunLocation(id) ==
    <<"h","t","t","p","s",":","/","/","a","p","i","/","v","1","/",
      "j","o","b","s","/","i","n","s","t","a","n","c","e","s","/">> \o id

\* the 202 response of the service to the POST that started job instance id
Accepted(id) == Response(202, PyDict([Location |-> PyStr(RunLocation(id))]))

----------------------------------------------------------------------------
(* The job-instance calls, step by step. *)

JobOps == {"list_item_job_instances", "get_item_job_instance"}

RunOps == {"run_on_demand_item_job"}

JobInit ==
    /\ instances \in Listings
    /\ args \in JobArgs
    /\ op = "idle"
    /\ pc = 0
    /\ payload = None
    /\ calls = <<>>
    /\ outcome = "idle"
    /\ result = None
    /\ remote = <<>>
    /\ remote0 = <<>>
    /\ target = None
    /\ cur_type = None
    /\ response = None
    /\ notebooks = <<>>

\* the caller calls list_item_job_instances
BeginList ==
    /\ op = "idle"
    /\ "item_type" \in DOMAIN args
    /\ op' = "list_item_job_instances"
    /\ pc' = 1
    /\ outcome' = "running"
    /\ target' = None
    /\ UNCHANGED <<args, payload, calls, result, remote, remote0, instances, cur_type, response, notebooks>>

\* the caller calls get_item_job_instance on a job instance id, known to the
\* service or not
BeginGet ==
    /\ op = "idle"
    /\ "item_type" \in DOMAIN args
    /\ \E id \in {InstancesOf(instances)[i].v["id"] :
                     i \in 1..Len(InstancesOf(instances))} \cup {InstanceId(0, 0)} :
          target' = id
    /\ op' = "get_item_job_instance"
    /\ pc' = 1
    /\ outcome' = "running"
    /\ UNCHANGED <<args, payload, calls, result, remote, remote0, instances, cur_type, response, notebooks>>

\* the caller calls cancel_item_job_instance on a job instance id, known to
\* the service or not
BeginCancel ==
    /\ op = "idle"
    /\ "item_type" \in DOMAIN args
    /\ \E id \in {InstancesOf(instances)[i].v["id"] :
                     i \in 1..Len(InstancesOf(instances))} \cup {InstanceId(0, 0)} :
          target' = id
    /\ op' = "cancel_item_job_instance"
    /\ pc' = 1
    /\ outcome' = "running"
    /\ UNCHANGED <<args, payload, calls, result, remote, remote0, instances, cur_type, response, notebooks>>

\* the caller calls run_on_demand_item_job
BeginRun ==
    /\ op = "idle"
    /\ "item_type" \in DOMAIN args
    /\ op' = "run_on_demand_item_job"
    /\ pc' = 1
    /\ outcome' = "running"
    /\ target' = None
    /\ UNCHANGED <<args, payload, calls, result, remote, remote0, instances, cur_type, response, notebooks>>

\* the calls that look a missing item_type up in the item catalog
TypeResolvingOps == {"list_item_job_instances", "run_on_demand_item_job"}

\* the item type a call works with once the names are resolved:
\* list_item_job_instances and run_on_demand_item_job look a missing
\* item_type up in the item catalog and keep one that is given; the other
\* calls keep the argument
ResolvedItemType(o, item_type) ==
    IF o \in TypeResolvingOps /\ item_type = None THEN CatalogItemType
    ELSE item_type

\* the lookup of the item type in the item catalog, made when the call looks
\* a missing item_type up
TypeResolutions(o, item_type) ==
    IF o \in TypeResolvingOps /\ item_type = None
    THEN <<NetCall("get", "items/id", None)>> ELSE <<>>

\* the workspace and the item are resolved, and for list_item_job_instances
\* and run_on_demand_item_job the item type when the caller gave none
JobResolve ==
    /\ op \in JobOps \cup RunOps \cup {"cancel_item_job_instance"}
    /\ outcome = "running"
    /\ pc = 1
    /\ calls' = calls \o Resolutions \o TypeResolutions(op, args.item_type)
    /\ cur_type' = ResolvedItemType(op, args.item_type)
    /\ pc' = 2
    /\ UNCHANGED <<args, op, payload, outcome, result, remote, remote0, instances, target, response, notebooks>>

\* the workspace, the item or the item's type is not found: the lookup
\* raises, after the workspace's lookup alone, after the workspace's and the
\* item's, or after the three when resolve_item_type is called and raises
JobResolveFails ==
    /\ op \in JobOps \cup RunOps \cup {"cancel_item_job_instance"}
    /\ outcome = "running"
    /\ pc = 1
    /\ \E made \in FailedResolutions \cup
                     {Resolutions \o TypeResolutions(op, args.item_type)} :
          calls' = calls \o made
    /\ outcome' = "NotFound"
    /\ UNCHANGED <<args, op, pc, payload, result, remote, remote0, instances, target, cur_type, response, notebooks>>

\* list_item_job_instances: the paginated GET is answered with all the pages,
\* and the table is built from them
ListRequest ==
    /\ op = "list_item_job_instances"
    /\ outcome = "running"
    /\ pc = 2
    /\ calls' = calls \o [p \in 1..Len(instances) |->
                             NetCall("get", "jobs/instances", None)]
    /\ result' = list_item_job_instances(instances, CatalogItemName, cur_type)
    /\ pc' = 3
    /\ outcome' = "returned"
    /\ UNCHANGED <<args, op, payload, remote, remote0, instances, target, cur_type, response, notebooks>>

\* get_item_job_instance: the GET is answered with the job instance, and the
\* one-row table is built from it
GetRequest ==
    /\ op = "get_item_job_instance"
    /\ outcome = "running"
    /\ pc = 2
    /\ \E i \in 1..Len(InstancesOf(instances)) :
          /\ InstancesOf(instances)[i].v["id"] = target
          /\ result' = get_item_job_instance(InstancesOf(instances)[i], CatalogItemName, cur_type)
    /\ calls' = Append(calls, NetCall("get", "jobs/instances/id", None))
    /\ pc' = 3
    /\ outcome' = "returned"
    /\ UNCHANGED <<args, op, payload, remote, remote0, instances, target, cur_type, response, notebooks>>

\* get_item_job_instance: the job instance id is unknown to the service, the
\* GET is answered 404 and _base_api raises
GetRequestFails ==
    /\ op = "get_item_job_instance"
    /\ outcome = "running"
    /\ pc = 2
    /\ \A i \in 1..Len(InstancesOf(instances)) :
          InstancesOf(instances)[i].v["id"] # target
    /\ calls' = Append(calls, NetCall("get", "jobs/instances/id", None))
    /\ outcome' = "FabricHTTPException"
    /\ UNCHANGED <<args, op, pc, payload, result, remote, remote0, instances, target, cur_type, response, notebooks>>

\* run_on_demand_item_job: the POST is answered 202, the service has started
\* a job instance, and the call returns the last segment of the Location
\* header (the pages of the listing stay those the behaviour began with)
RunRequest ==
    /\ op = "run_on_demand_item_job"
    /\ outcome = "running"
    /\ pc = 2
    /\ calls' = Append(calls, NetCall("post", "jobs/instances", None))
    /\ \E id \in RunIds : response' = Accepted(id)
    /\ result' = LastSegment(response')
    /\ pc' = 3
    /\ outcome' = "returned"
    /\ UNCHANGED <<args, op, payload, remote, remote0, instances, target, cur_type, notebooks>>

\* run_on_demand_item_job: the POST is answered with another status than 202
\* and _base_api raises
RunRequestFails ==
    /\ op = "run_on_demand_item_job"
    /\ outcome = "running"
    /\ pc = 2
    /\ calls' = Append(calls, NetCall("post", "jobs/instances", None))
    /\ outcome' = "FabricHTTPException"
    /\ UNCHANGED <<args, op, pc, payload, result, remote, remote0, instances, target, cur_type, response, notebooks>>

\* cancel_item_job_instance: the POST to the cancel sub-resource is answered
\* 202; the service has taken the request, the job instance changes later
\* and on the service's side
CancelRequest ==
    /\ op = "cancel_item_job_instance"
    /\ outcome = "running"
    /\ pc = 2
    /\ \E i \in 1..Len(InstancesOf(instances)) :
          InstancesOf(instances)[i].v["id"] = target
    /\ calls' = Append(calls, [method |-> "post", request |-> "jobs/instances/id/cancel",
                                payload |-> None, id |-> target])
    /\ response' = Response(202, EmptyDict)
    /\ pc' = 3
    /\ outcome' = "returned"
    /\ UNCHANGED <<args, op, payload, result, remote, remote0, instances, target, cur_type, notebooks>>

\* cancel_item_job_instance: the POST is answered with another status than
\* 202 (the job instance id is unknown, the service refuses) and _base_api
\* raises
CancelRequestFails ==
    /\ op = "cancel_item_job_instance"
    /\ outcome = "running"
    /\ pc = 2
    /\ calls' = Append(calls, [method |-> "post", request |-> "jobs/instances/id/cancel",
                                payload |-> None, id |-> target])
    /\ outcome' = "FabricHTTPException"
    /\ UNCHANGED <<args, op, pc, payload, result, remote, remote0, instances, target, cur_type, response, notebooks>>

JobNext ==
    \/ BeginList
    \/ BeginCancel
    \/ CancelRequest
    \/ CancelRequestFails
    \/ BeginRun
    \/ RunRequest
    \/ RunRequestFails
    \/ BeginGet
    \/ JobResolve
    \/ JobResolveFails
    \/ ListRequest
    \/ GetRequest
    \/ GetRequestFails

----------------------------------------------------------------------------
(* sempy_labs/_notebooks.py: text and base64. *)

\* str.startswith
StartsWith(s, prefix) ==
    Len(s) >= Len(prefix) /\ SubSeq(s, 1, Len(prefix)) = prefix

\* s[n:]
From(s, n) == SubSeq(s, n + 1, Len(s))

RECURSIVE Replace(_, _, _)
\* str.replace: every occurrence of old (not empty), found from left to
\* right and not overlapping, becomes new
Replace(s, old, new) ==
    IF Len(s) < Len(old) THEN s
    ELSE IF SubSeq(s, 1, Len(old)) = old
         THEN new \o Replace(From(s, Len(old)), old, new)
         ELSE <<s[1]>> \o Replace(Tail(s), old, new)

\* the characters of code 32 to 126, in code order (the grave accent, which
\* no string of the model holds, by its name)
Ascii ==
    <<" ","!","\"","#","$","%","&","'","(",")","*","+",",","-",".","/","0",
      "1","2","3","4","5","6","7","8","9",":",";","<","=",">","?","@","A",
      "B","C","D","E","F","G","H","I","J","K","L","M","N","O","P","Q","R",
      "S","T","U","V","W","X","Y","Z","[","\\","]","^","_","grave","a","b","c",
      "d","e","f","g","h","i","j","k","l","m","n","o","p","q","r","s","t",
      "u","v","w","x","y","z","{","|","}","~">>

\* ord and chr, on the characters of code 32 to 126
Ord(c) == 31 + (CHOOSE i \in 1..Len(Ascii) : Ascii[i] = c)
Chr(n) == Ascii[n - 31]

\* str.encode("utf-8") and bytes.decode("utf-8"), on the characters of code
\* 32 to 126: one byte per character
Utf8Encode(s) == [i \in 1..Len(s) |-> Ord(s[i])]
Utf8Decode(bytes) == [i \in 1..Len(bytes) |-> Chr(bytes[i])]

\* the base64 alphabet, in value order
B64Alphabet ==
    <<"A","B","C","D","E","F","G","H","I","J","K","L","M","N","O","P","Q",
      "R","S","T","U","V","W","X","Y","Z","a","b","c","d","e","f","g","h",
      "i","j","k","l","m","n","o","p","q","r","s","t","u","v","w","x","y",
      "z","0","1","2","3","4","5","6","7","8","9","+","/">>

B64Value(c) == (CHOOSE i \in 1..64 : B64Alphabet[i] = c) - 1

RECURSIVE B64Encode(_)
\* base64.b64encode: three bytes give four characters, the last group is
\* padded with "="
B64Encode(bytes) ==
    IF Len(bytes) = 0 THEN <<>>
    ELSE IF Len(bytes) = 1
    THEN LET n == bytes[1] * 65536
         IN  <<B64Alphabet[(n \div 262144) + 1],
               B64Alphabet[((n \div 4096) % 64) + 1], "=", "=">>
    ELSE IF Len(bytes) = 2
    THEN LET n == bytes[1] * 65536 + bytes[2] * 256
         IN  <<B64Alphabet[(n \div 262144) + 1],
               B64Alphabet[((n \div 4096) % 64) + 1],
               B64Alphabet[((n \div 64) % 64) + 1], "=">>
    ELSE LET n == bytes[1] * 65536 + bytes[2] * 256 + bytes[3]
         IN  <<B64Alphabet[(n \div 262144) + 1],
               B64Alphabet[((n \div 4096) % 64) + 1],
               B64Alphabet[((n \div 64) % 64) + 1],
               B64Alphabet[(n % 64) + 1]>> \o B64Encode(From(bytes, 3))

RECURSIVE B64Decode(_)
\* base64.b64decode of a padded base64 text: four characters give three
\* bytes, fewer where the group is padded
B64Decode(text) ==
    IF Len(text) < 4 THEN <<>>
    ELSE LET v(i) == IF text[i] = "=" THEN 0 ELSE B64Value(text[i])
             n == v(1) * 262144 + v(2) * 4096 + v(3) * 64 + v(4)
             three == <<n \div 65536, (n \div 256) % 256, n % 256>>
             kept == IF text[3] = "=" THEN 1 ELSE IF text[4] = "=" THEN 2 ELSE 3
         IN  SubSeq(three, 1, kept) \o B64Decode(From(text, 4))

\* _decode_b64(file): the text the base64 payload encodes
decode_b64(file) == Utf8Decode(B64Decode(file))

----------------------------------------------------------------------------
(* sempy_labs/_notebooks.py: the definitions of notebooks. *)

notebook_prefix == <<"n","o","t","e","b","o","o","k","-","c","o","n","t","e","n","t",".">>

\* the positions of character c in text s
Positions(s, c) == {i \in 1..Len(s) : s[i] = c}

\* the greatest element of a set of positions, 0 for the empty set
Last(positions) ==
    IF positions = {} THEN 0
    ELSE CHOOSE i \in positions : \A j \in positions : j <= i

\* os.path.splitext(p)[1]: the text from the last "." of the last path
\* component on, when a character other than "." comes before it in the
\* component; the empty text otherwise
SplitextExt(p) ==
    LET sep == Last(Positions(p, "/"))
        dot == Last(Positions(p, "."))
    IN  IF dot > sep /\ \E i \in (sep + 1)..(dot - 1) : p[i] # "."
        THEN SubSeq(p, dot, Len(p))
        ELSE <<>>

\* df_items[df_items["path"].str.startswith(_notebook_prefix)]: the parts
\* whose path starts with the marker, in order
MarkedParts(parts) ==
    SelectSeq(parts, LAMBDA part : StartsWith(part.path, notebook_prefix))

\* _get_notebook_type, from the parts of the definition: the extension of the
\* path of the first part with the marker, without its "."
get_notebook_type(parts) ==
    LET file_path == MarkedParts(parts)[1].path
        file_extension == SplitextExt(file_path)
    IN  From(file_extension, 1)

\* a get_notebook_definition that reads the first part of the definition
get_notebook_definition_first_part(parts, decode) ==
    LET part_payload == parts[1].payload
    IN  IF decode THEN decode_b64(part_payload) ELSE part_payload

\* get_notebook_definition, from the parts of the definition: the payload of
\* the first part with the marker, decoded or as it is
get_notebook_definition(parts, decode) ==
    LET part_payload == MarkedParts(parts)[1].payload
    IN  IF decode THEN decode_b64(part_payload) ELSE part_payload

\* one part of a definition payload
Part(path, part_payload) ==
    PyDict([path |-> PyStr(path), payload |-> PyStr(part_payload),
            payloadType |-> PyStr("InlineBase64")])

\* definition_payload of create_notebook: one part, and the format tag when
\* format is "ipynb"
create_notebook_definition(notebook_content, type, format) ==
    LET notebook_payload == B64Encode(notebook_content)
        definition_payload ==
            PyDict([parts |-> PyList(<<Part(notebook_prefix \o type,
                                            notebook_payload)>>)])
    IN  IF format = PyStr("ipynb")
        THEN DictSet(definition_payload, "format", PyStr("ipynb"))
        ELSE definition_payload

\* an update payload whose part has the path of the format argument
update_notebook_definition_payload_path_of_format(notebook_content, type, format) ==
    LET notebook_payload == B64Encode(Utf8Encode(notebook_content))
        path == notebook_prefix \o (IF format = PyStr("ipynb")
                                    THEN <<"i","p","y","n","b">> ELSE type)
        definition == PyDict([parts |-> PyList(<<Part(path, notebook_payload)>>)])
    IN  PyDict([definition |->
                  IF format = PyStr("ipynb")
                  THEN DictSet(definition, "format", PyStr("ipynb"))
                  ELSE definition])

\* payload of update_notebook_definition: one part, whose path has the type
\* of the notebook, and the format tag when format is "ipynb"
update_notebook_definition_payload(notebook_content, type, format) ==
    LET notebook_payload == B64Encode(Utf8Encode(notebook_content))
        definition == PyDict([parts |-> PyList(<<Part(notebook_prefix \o type,
                                                      notebook_payload)>>)])
    IN  PyDict([definition |->
                  IF format = PyStr("ipynb")
                  THEN DictSet(definition, "format", PyStr("ipynb"))
                  ELSE definition])

GithubPrefix == <<"h","t","t","p","s",":","/","/","g","i","t","h","u","b",".","c","o","m","/">>

RawPrefix ==
    <<"h","t","t","p","s",":","/","/","r","a","w",".","g","i","t","h","u",
      "b","u","s","e","r","c","o","n","t","e","n","t",".","c","o","m","/">>

\* the URL import_notebook_from_web fetches: a URL that starts with
\* https://github.com/ has this start replaced by
\* https://raw.githubusercontent.com/ and then every "/blob/" by "/"
FetchUrl(url) ==
    LET starting_text == GithubPrefix
        starting_text_len == Len(starting_text)
    IN  IF StartsWith(url, starting_text)
        THEN Replace(RawPrefix \o From(url, starting_text_len),
                     <<"/","b","l","o","b","/">>, <<"/">>)
        ELSE url

----------------------------------------------------------------------------
(* The remote service and the web, as the notebook calls see them. *)

\* a part of a notebook definition as the service keeps it and as
\* pd.json_normalize(result["definition"]["parts"]) gives it: one row
StoredPart(path, part_payload) == [path |-> path, payload |-> part_payload]

\* the base64 texts of hello, of print(1) and of {}
HelloB64 == <<"a","G","V","s","b","G","8","=">>
PrintB64 == <<"c","H","J","p","b","n","Q","o","M","S","k","=">>
BracesB64 == <<"e","3","0","=">>

PlatformPart == StoredPart(<<".","p","l","a","t","f","o","r","m">>, BracesB64)

\* the part lists a notebook of the service may have: a source notebook, a
\* notebook whose content part comes after its .platform part, a notebook
\* whose content path has two dots, and a definition without a content part
PartLists ==
    { <<StoredPart(notebook_prefix \o <<"p","y">>, HelloB64)>>,
      <<PlatformPart,
        StoredPart(notebook_prefix \o <<"i","p","y","n","b">>, PrintB64)>>,
      <<StoredPart(notebook_prefix \o <<"v","2",".","s","q","l">>, PrintB64),
        PlatformPart>>,
      <<PlatformPart>> }

\* the states of the workspace: no notebook, or the notebook "nb" with one of
\* the part lists
NotebookStores ==
    {<<>>} \cup {<<[name |-> PyStr("nb"), parts |-> parts]>> : parts \in PartLists}

\* dfI[dfI["Display Name"] == notebook_name]: the notebooks of that name
Named(store, name) == SelectSeq(store, LAMBDA nb : nb.name = name)

\* the rows the service keeps for the parts of a definition payload
RowsOfDefinition(definition) ==
    LET parts == definition.v["parts"].v
    IN  [i \in 1..Len(parts) |->
            StoredPart(parts[i].v["path"].v, parts[i].v["payload"].v)]

\* the workspace after the service has created notebook name with definition
StoreNotebook(store, name, definition) ==
    Append(store, [name |-> name, parts |-> RowsOfDefinition(definition)])

\* the workspace after the service has replaced the whole part list of
\* notebook name by that of definition
StoreDefinition(store, name, definition) ==
    [i \in 1..Len(store) |->
        IF store[i].name = name
        THEN [name |-> name, parts |-> RowsOfDefinition(definition)]
        ELSE store[i]]

\* the URLs a caller may pass
UrlInputs ==
    {
      <<"h","t","t","p","s",":","/","/","g","i","t","h","u","b",".","c","o",
        "m","/","o","r","g","/","r","e","p","o","/","b","l","o","b","/","m",
        "a","i","n","/","n","b",".","i","p","y","n","b">>,
      <<"h","t","t","p","s",":","/","/","g","i","t","h","u","b",".","c","o",
        "m","/","o","r","g","/","r","e","p","o","/","b","l","o","b","/","m",
        "a","i","n","/","b","l","o","b","/","n","b",".","i","p","y","n",
        "b">>,
      <<"h","t","t","p","s",":","/","/","g","i","t","h","u","b",".","c","o",
        "m","/","o","r","g","/","r","e","p","o","/","r","a","w","/","m","a",
        "i","n","/","n","b",".","i","p","y","n","b">>,
      <<"h","t","t","p",":","/","/","g","i","t","h","u","b",".","c","o","m",
        "/","o","r","g","/","r","e","p","o","/","b","l","o","b","/","m","a",
        "i","n","/","n","b",".","i","p","y","n","b">>,
      <<"h","t","t","p","s",":","/","/","e","x","a","m","p","l","e",".","c",
        "o","m","/","b","l","o","b","/","n","b",".","i","p","y","n","b">>,
      <<"h","t","t","p","s",":","/","/","r","a","w",".","g","i","t","h","u",
        "b","u","s","e","r","c","o","n","t","e","n","t",".","c","o","m","/",
        "o","r","g","/","r","e","p","o","/","m","a","i","n","/","n","b",".",
        "i","p","y","n","b">> }

\* the bytes the web serves under every URL, and the statuses it may answer
WebContent == Utf8Encode(<<"{","}">>)
FetchStatuses == {200, 404, 500}

\* the response of requests.get: its status and its content
Fetched(status, content) ==
    [status |-> status, headers |-> EmptyDict, content |-> content]

\* the request of requests.get, as the call log keeps it
WebCall(url) == [method |-> "get", request |-> "web", payload |-> None, url |-> url]

\* the notice import_notebook_from_web prints, as the call log keeps it
Notice == [method |-> "print", request |-> "overwrite not supported", payload |-> None]

NotebookArgs ==
    [url : UrlInputs, notebook_name : {PyStr("nb"), PyStr("new")},
     overwrite : BOOLEAN, decode : BOOLEAN,
     format : {None, PyStr("ipynb")},
     notebook_content : {<<"p","r","i","n","t","(","2",")">>}]

----------------------------------------------------------------------------
(* The notebook calls, step by step. *)

NotebookOps ==
    {"import_notebook_from_web", "get_notebook_definition",
     "update_notebook_definition"}

NotebookInit ==
    /\ args \in NotebookArgs
    /\ notebooks \in NotebookStores
    /\ op = "idle"
    /\ pc = 0
    /\ payload = None
    /\ calls = <<>>
    /\ outcome = "idle"
    /\ result = None
    /\ remote = <<>>
    /\ remote0 = <<>>
    /\ instances = <<>>
    /\ target = None
    /\ cur_type = None
    /\ response = None

\* the call in progress is notebook call o at position p
NotebookAt(o, p) == op = o /\ outcome = "running" /\ pc = p

\* the caller calls one of the notebook calls
BeginNotebook ==
    /\ op = "idle"
    /\ "url" \in DOMAIN args
    /\ op' \in NotebookOps
    /\ pc' = 1
    /\ outcome' = "running"
    /\ UNCHANGED <<args, payload, calls, result, remote, remote0, instances, target, cur_type, response, notebooks>>

\* resolve_workspace_name_and_id / resolve_workspace_id: the workspace is
\* not found and the lookup raises
WorkspaceFails ==
    /\ op \in NotebookOps
    /\ outcome = "running"
    /\ pc = 1
    /\ calls' = Append(calls, NetCall("get", "workspaces", None))
    /\ outcome' = "NotFound"
    /\ UNCHANGED <<args, op, pc, payload, result, remote, remote0, instances, target, cur_type, response, notebooks>>

\* an import_notebook_from_web that lists the notebooks before it fetches
import_notebook_from_web_steps_listed_first ==
    <<"resolve", "list", "fetch", "branch">>

\* the body of import_notebook_from_web, in the order of the code: the
\* workspace is resolved, the URL is rewritten and fetched, the notebooks
\* are listed, and the branch on the name and overwrite is taken
import_notebook_from_web_steps == <<"resolve", "fetch", "list", "branch">>

\* import_notebook_from_web is at the step called name
ImportAt(name) ==
    /\ op = "import_notebook_from_web"
    /\ outcome = "running"
    /\ pc \in 1..Len(import_notebook_from_web_steps)
    /\ import_notebook_from_web_steps[pc] = name

\* import_notebook_from_web: the workspace is resolved
ImportResolve ==
    /\ ImportAt("resolve")
    /\ calls' = Append(calls, NetCall("get", "workspaces", None))
    /\ pc' = pc + 1
    /\ UNCHANGED <<args, op, payload, outcome, result, remote, remote0, instances, target, cur_type, response, notebooks>>

\* import_notebook_from_web: the URL is rewritten and fetched; a status
\* other than 200 raises FabricHTTPException(response)
ImportFetch ==
    /\ ImportAt("fetch")
    /\ target' = PyStr(FetchUrl(args.url))
    /\ calls' = Append(calls, WebCall(target'.v))
    /\ \E status \in FetchStatuses :
          /\ response' = Fetched(status, IF status = 200 THEN WebContent ELSE <<>>)
          /\ IF status # 200
             THEN pc' = pc /\ outcome' = "FabricHTTPException"
             ELSE pc' = pc + 1 /\ outcome' = "running"
    /\ UNCHANGED <<args, op, payload, result, remote, remote0, instances, cur_type, notebooks>>

\* import_notebook_from_web: the notebooks of the workspace are listed
ImportList ==
    /\ ImportAt("list")
    /\ calls' = Append(calls, NetCall("get", "items?type=Notebook", None))
    /\ pc' = pc + 1
    /\ UNCHANGED <<args, op, payload, outcome, result, remote, remote0, instances, target, cur_type, response, notebooks>>

\* a choice that takes a notebook of the name for an error, overwrite set or
\* not
import_branch_overwrite_ignored(found, overwrite) ==
    IF found = 0 THEN "create" ELSE "raise"

\* the branch import_notebook_from_web takes once the notebooks are listed,
\* from the number of notebooks of the name
import_branch(found, overwrite) ==
    IF found = 0 THEN "create"
    ELSE IF found > 0 /\ overwrite THEN "notice"
    ELSE "raise"

\* import_notebook_from_web: no notebook has the name, create_notebook
\* builds the definition from the content fetched and create_item posts it;
\* the service creates the notebook, or refuses and create_item raises
ImportCreate ==
    /\ ImportAt("branch")
    /\ import_branch(Len(Named(notebooks, args.notebook_name)), args.overwrite) = "create"
    /\ payload' = create_notebook_definition(response.content, <<"p","y">>, PyStr("ipynb"))
    /\ calls' = Append(calls, NetCall("post", "items",
                   PyDict([displayName |-> args.notebook_name,
                           type |-> PyStr("Notebook"),
                           definition |-> payload'])))
    /\ \/ /\ notebooks' = StoreNotebook(notebooks, args.notebook_name, payload')
          /\ pc' = pc + 1
          /\ outcome' = "returned"
       \/ /\ notebooks' = notebooks
          /\ pc' = pc
          /\ outcome' = "FabricHTTPException"
    /\ UNCHANGED <<args, op, result, remote, remote0, instances, target, cur_type, response>>

\* import_notebook_from_web: a notebook has the name and overwrite is set;
\* the notice is printed and the call returns
ImportNotice ==
    /\ ImportAt("branch")
    /\ import_branch(Len(Named(notebooks, args.notebook_name)), args.overwrite) = "notice"
    /\ calls' = Append(calls, Notice)
    /\ pc' = pc + 1
    /\ outcome' = "returned"
    /\ UNCHANGED <<args, op, payload, result, remote, remote0, instances, target, cur_type, response, notebooks>>

\* import_notebook_from_web: a notebook has the name and overwrite is not
\* set; the call raises ValueError
ImportExists ==
    /\ ImportAt("branch")
    /\ import_branch(Len(Named(notebooks, args.notebook_name)), args.overwrite) = "raise"
    /\ outcome' = "ValueError: exists"
    /\ UNCHANGED <<args, op, pc, payload, calls, result, remote, remote0, instances, target, cur_type, response, notebooks>>

\* the notebook the call in progress names, as the service keeps it
NamedNotebook == Named(notebooks, args.notebook_name)[1]

\* url of _get_notebook_definition_base, from the item on
GetDefinitionUrl(format) ==
    IF format = PyStr("ipynb") THEN "getDefinition?format=ipynb"
    ELSE "getDefinition"

\* get_notebook_definition, update_notebook_definition: resolve_item_id finds
\* no notebook of the name and raises
ItemFails ==
    /\ op \in {"get_notebook_definition", "update_notebook_definition"}
    /\ outcome = "running"
    /\ pc = 1
    /\ Len(Named(notebooks, args.notebook_name)) = 0
    /\ calls' = calls \o Resolutions
    /\ outcome' = "NotFound"
    /\ UNCHANGED <<args, op, pc, payload, result, remote, remote0, instances, target, cur_type, response, notebooks>>

\* get_notebook_definition: _get_notebook_definition_base resolves the
\* workspace and the notebook
GetDefinitionResolve ==
    /\ NotebookAt("get_notebook_definition", 1)
    /\ Len(Named(notebooks, args.notebook_name)) > 0
    /\ calls' = calls \o Resolutions
    /\ pc' = 2
    /\ UNCHANGED <<args, op, payload, outcome, result, remote, remote0, instances, target, cur_type, response, notebooks>>

\* get_notebook_definition: the getDefinition POST is answered with the parts
\* of the notebook; the call returns the payload of the first part with the
\* marker, or raises IndexError when no part has it
GetDefinitionRequest ==
    /\ NotebookAt("get_notebook_definition", 2)
    /\ calls' = Append(calls, NetCall("post", GetDefinitionUrl(args.format), None))
    /\ response' = Response(200, EmptyDict)
    /\ IF Len(MarkedParts(NamedNotebook.parts)) = 0
       THEN pc' = pc /\ outcome' = "IndexError" /\ result' = result
       ELSE /\ pc' = 3
            /\ outcome' = "returned"
            /\ result' = PyStr(get_notebook_definition(NamedNotebook.parts, args.decode))
    /\ UNCHANGED <<args, op, payload, remote, remote0, instances, target, cur_type, notebooks>>

\* get_notebook_definition, _get_notebook_type: the getDefinition POST fails
\* and _base_api raises
GetDefinitionFails ==
    /\ \/ NotebookAt("get_notebook_definition", 2)
       \/ NotebookAt("update_notebook_definition", 2)
    /\ calls' = (IF op = "update_notebook_definition" THEN calls \o Resolutions
                 ELSE calls)
                \o <<NetCall("post", GetDefinitionUrl(IF op = "get_notebook_definition"
                                                      THEN args.format ELSE None), None)>>
    /\ outcome' = "FabricHTTPException"
    /\ UNCHANGED <<args, op, pc, payload, result, remote, remote0, instances, target, cur_type, response, notebooks>>

\* update_notebook_definition: the workspace is resolved, the content is
\* encoded and resolve_item_id finds the notebook
UpdateDefinitionResolve ==
    /\ NotebookAt("update_notebook_definition", 1)
    /\ Len(Named(notebooks, args.notebook_name)) > 0
    /\ calls' = calls \o Resolutions
    /\ pc' = 2
    /\ UNCHANGED <<args, op, payload, outcome, result, remote, remote0, instances, target, cur_type, response, notebooks>>

\* update_notebook_definition: _get_notebook_type fetches the definition of
\* the notebook and takes the extension of its content part, or raises
\* IndexError when no part has the marker
UpdateDefinitionGetType ==
    /\ NotebookAt("update_notebook_definition", 2)
    /\ calls' = calls \o Resolutions
                      \o <<NetCall("post", GetDefinitionUrl(None), None)>>
    /\ response' = Response(200, EmptyDict)
    /\ IF Len(MarkedParts(NamedNotebook.parts)) = 0
       THEN pc' = pc /\ outcome' = "IndexError" /\ cur_type' = cur_type
       ELSE /\ pc' = 3
            /\ outcome' = "running"
            /\ cur_type' = PyStr(get_notebook_type(NamedNotebook.parts))
    /\ UNCHANGED <<args, op, payload, result, remote, remote0, instances, target, notebooks>>

\* update_notebook_definition: the payload is built and the updateDefinition
\* POST is sent; the service replaces the part list of the notebook, or
\* refuses and _base_api raises
UpdateDefinitionRequest ==
    /\ NotebookAt("update_notebook_definition", 3)
    /\ payload' = update_notebook_definition_payload(
                      args.notebook_content, cur_type.v, args.format)
    /\ calls' = Append(calls, NetCall("post", "updateDefinition", payload'))
    /\ \/ /\ notebooks' = StoreDefinition(notebooks, args.notebook_name,
                                          payload'.v["definition"])
          /\ pc' = 4
          /\ outcome' = "returned"
       \/ /\ notebooks' = notebooks
          /\ pc' = pc
          /\ outcome' = "FabricHTTPException"
    /\ UNCHANGED <<args, op, result, remote, remote0, instances, target, cur_type, response>>

NotebookNext ==
    \/ BeginNotebook
    \/ WorkspaceFails
    \/ ImportResolve
    \/ ImportFetch
    \/ ImportList
    \/ ImportCreate
    \/ ImportNotice
    \/ ImportExists
    \/ ItemFails
    \/ GetDefinitionResolve
    \/ GetDefinitionRequest
    \/ GetDefinitionFails
    \/ UpdateDefinitionResolve
    \/ UpdateDefinitionGetType
    \/ UpdateDefinitionRequest

----------------------------------------------------------------------------
(* The specification: a behaviour makes schedule calls with one set of       *)
(* arguments, or job-instance calls against one state of the service, or    *)
(* notebook calls with one set of arguments.                                *)

Init == ScheduleInit \/ JobInit \/ NotebookInit

Next == ScheduleNext \/ JobNext \/ NotebookNext

Spec == Init /\ [][Next]_vars

----------------------------------------------------------------------------
(* What the claims speak of. *)

\* a call has ended, by a return or an exception, and the caller has not yet
\* gone on
Ended == op # "idle" /\ outcome # "running"

CronSpellings == { <<"c","r","o","n">>, <<"C","r","o","n">> }
DailySpellings == { <<"d","a","i","l","y">>, <<"D","A","I","L","Y">> }
WeeklySpellings == { <<"w","e","e","k","l","y">>, <<"W","e","e","k","l","y">> }

\* the schedule_config_type of the call is cron, daily or weekly in some
\* letter case
TypeAccepted ==
    args.schedule_config_type.v \in
        CronSpellings \cup DailySpellings \cup WeeklySpellings

\* the exceptions the checks of the arguments raise
ValueErrors == {"ValueError: Type", "ValueError: Interval", "ValueError: times"}

ValidationErrors == ValueErrors \cup {"TypeError"}

\* the times argument is absent, or is one hh:mm time slot
FewTimes == args.times \in {None, Slot(1, ":"), TimesOfLen(1, ":")}

BaseKeys == {"startDateTime", "endDateTime", "localTimeZoneId", "type"}

\* C1: the configuration of the payload built for a cron, daily or weekly
\* schedule has exactly the keys of its type: the four base keys and interval
\* for cron, times (the text of the times argument) for daily, times and
\* weekdays for weekly, whatever other arguments the caller passed.
C1_PayloadKeys ==
    (op \in ScheduleOps /\ payload # None) =>
        LET cfg == payload.v["configuration"].v
            t == args.schedule_config_type.v
        IN  /\ t \in CronSpellings =>
                /\ DOMAIN cfg = BaseKeys \cup {"interval"}
                /\ cfg["interval"] = args.interval
            /\ t \in DailySpellings =>
                /\ DOMAIN cfg = BaseKeys \cup {"times"}
                /\ cfg["times"] = PyStr(Str(args.times))
            /\ t \in WeeklySpellings =>
                /\ DOMAIN cfg = BaseKeys \cup {"times", "weekdays"}
                /\ cfg["times"] = args.times
                /\ cfg["weekdays"] = args.weekdays
            /\ cfg["type"] = args.schedule_config_type

\* a payload has been built for a daily schedule whose caller also passed an
\* interval and weekdays
C1_Witness ==
    /\ op \in ScheduleOps
    /\ payload # None
    /\ args.schedule_config_type.v \in DailySpellings
    /\ args.interval # None
    /\ args.weekdays # None
    /\ args.times \in HhMmTimes

\* C2: a schedule call rejects its schedule_config_type exactly when the
\* lower-cased type is none of cron, daily, weekly; the rejected call ends
\* with the type's ValueError and has made no network call.
C2_TypeValidation ==
    op \in ScheduleOps =>
        /\ ~TypeAccepted => calls = <<>>
        /\ (~TypeAccepted /\ Ended) => outcome = "ValueError: Type"
        /\ TypeAccepted => outcome # "ValueError: Type"

\* a call with the type "monthly" has ended with the type's ValueError
C2_Witness ==
    /\ op \in ScheduleOps
    /\ args.schedule_config_type.v = <<"m","o","n","t","h","l","y">>
    /\ outcome = "ValueError: Type"

\* C3: a schedule call with an accepted type and few times that omits the
\* interval (interval = None) raises nothing while its arguments are checked:
\* it ends beyond the checks, with its POST or PATCH sent unless the names
\* could not be resolved.
C3_OmittedIntervalPasses ==
    (op \in ScheduleOps /\ Ended /\ TypeAccepted /\ FewTimes
        /\ args.interval = None) =>
        /\ outcome \notin ValidationErrors
        /\ outcome = "returned" => Mutated

\* C4: a schedule call with an accepted type and an integer interval ends
\* with the interval's ValueError exactly when interval < 1 or
\* interval > 5270400, and with few times that is its only ValueError.
C4_IntervalRange ==
    (op \in ScheduleOps /\ Ended /\ TypeAccepted /\ args.interval # None) =>
        LET out_of_range == args.interval.v < 1 \/ args.interval.v > 5270400
        IN  /\ outcome = "ValueError: Interval" <=> out_of_range
            /\ FewTimes => (outcome \in ValueErrors <=> out_of_range)

\* a call with the interval 5270400 has returned, its request sent
C4_Witness ==
    /\ op \in ScheduleOps
    /\ outcome = "returned"
    /\ Mutated
    /\ args.interval = PyInt(5270400)

\* C5: a schedule call with an accepted type and an interval in the range
\* ends with the times' ValueError exactly when its list of hh:mm time slots
\* has more than 100 elements.
C5_TimesLimit ==
    (op \in ScheduleOps /\ Ended /\ TypeAccepted /\ args.interval # None
        /\ args.interval.v >= 1 /\ args.interval.v <= 5270400
        /\ args.times \in HhMmTimes) =>
        (outcome = "ValueError: times" <=> Len(args.times.v) > 100)

\* C6: a schedule call sends its POST or PATCH only with arguments that have
\* passed the three checks: a call that has ended with an exception of the
\* checks has sent no POST or PATCH and has left the remote schedules as they
\* were when it began.
C6_ValidationBeforeRequest ==
    op \in ScheduleOps =>
        /\ outcome \in ValidationErrors => (~Mutated /\ remote = remote0)
        /\ Mutated => /\ TypeAccepted
                      /\ args.interval # None
                      /\ args.interval.v >= 1 /\ args.interval.v <= 5270400
                      /\ ~TimesRejected(args.times)

\* an update_item_schedule call has ended with the interval's ValueError
C6_Witness ==
    /\ op = "update_item_schedule"
    /\ outcome = "ValueError: Interval"
    /\ TypeAccepted

\* the ids of the job instances of the listing, in page order
ListedIds ==
    [k \in 1..Len(InstancesOf(instances)) |-> InstancesOf(instances)[k].v["id"]]

\* the job instance of the service a row of the table was made of
InstanceOfRow(row) ==
    CHOOSE k \in 1..Len(InstancesOf(instances)) :
        ListedIds[k] = row["Job Instance Id"]

\* C7: the table list_item_job_instances returns holds one row per job
\* instance of all the pages, in page order.
C7_ListDrainsAllPages ==
    (op = "list_item_job_instances" /\ outcome = "returned") =>
        /\ Len(result.rows) = Len(ListedIds)
        /\ \A k \in 1..Len(result.rows) :
              result.rows[k]["Job Instance Id"] = ListedIds[k]

\* C8: when the listing is answered with an empty value array and holds no
\* job instance, list_item_job_instances, its names resolved, raises nothing
\* and returns a table of no rows with the eleven declared columns.
C8_EmptyListing ==
    (op = "list_item_job_instances" /\ Ended /\ outcome # "NotFound"
        /\ DictGet(instances[1], "value", None) = PyList(<<>>)
        /\ ListedIds = <<>>) =>
        /\ outcome = "returned"
        /\ result.rows = <<>>
        /\ result.columns =
              <<"Job Instance Id", "Item Name", "Item Id", "Item Type",
                "Job Type", "Invoke Type", "Status", "Root Activity Id",
                "Start Time UTC", "End Time UTC", "Error Message">>

\* list_item_job_instances has returned from a listing of one page whose
\* value array is empty
C8_Witness ==
    /\ op = "list_item_job_instances"
    /\ outcome = "returned"
    /\ instances = <<PyDict([value |-> PyList(<<>>)])>>

\* C9: in every row of a job-instance table, Error Message is the empty text
\* when the job instance has a null failureReason or none, and the message of
\* the failureReason when it has one.
C9_ErrorMessage ==
    (op \in JobOps /\ outcome = "returned") =>
        \A k \in 1..Len(result.rows) :
            LET row == result.rows[k]
                v == InstancesOf(instances)[InstanceOfRow(row)]
                fail == DictGet(v, "failureReason", None)
            IN  IF fail = None THEN row["Error Message"] = PyStr("")
                ELSE row["Error Message"] = fail.v["message"]

\* C10: get_item_job_instance called without an item_type reports the item
\* type of the remote item catalog in the Item Type column, the value
\* list_item_job_instances reports, and not a null.
C10_GetResolvesItemType ==
    (op = "get_item_job_instance" /\ outcome = "returned"
        /\ args.item_type = None) =>
        /\ Len(result.rows) = 1
        /\ result.rows[1]["Item Type"] = CatalogItemType
        /\ result.rows[1]["Item Type"] # None

\* the Location header of the response the call in progress has received
LocationHeader == response.headers.v["Location"].v

\* C11: after its POST is answered 202 (run_on_demand_item_job) or 201
\* (create_item_schedule), the call returns the text after the last "/" of
\* the Location header of the response; from a header ending in
\* /jobs/instances/abc-123 it returns abc-123.
C11_LocationTrailingSegment ==
    (op \in {"run_on_demand_item_job", "create_item_schedule"}
        /\ outcome = "returned") =>
        /\ response.status = (IF op = "create_item_schedule" THEN 201 ELSE 202)
        /\ \E k \in 1..Len(LocationHeader) :
              /\ LocationHeader[k] = "/"
              /\ result = PyStr(SubSeq(LocationHeader, k + 1, Len(LocationHeader)))
              /\ \A j \in (k + 1)..Len(LocationHeader) : LocationHeader[j] # "/"
        /\ (Len(LocationHeader) >= 23 /\
             SubSeq(LocationHeader, Len(LocationHeader) - 22, Len(LocationHeader))
               = <<"/","j","o","b","s","/","i","n","s","t","a","n","c","e","s","/",
                   "a","b","c","-","1","2","3">>)
            => result = PyStr(<<"a","b","c","-","1","2","3">>)

\* run_on_demand_item_job has returned from a 202 response whose Location
\* header ends in /jobs/instances/abc-123
C11_Witness ==
    /\ op = "run_on_demand_item_job"
    /\ outcome = "returned"
    /\ response.status = 202
    /\ LocationHeader = RunLocation(<<"a","b","c","-","1","2","3">>)

\* the requests of the call log that ask the service to create a notebook,
\* and those that ask it to update a definition
Creations(log) ==
    {i \in 1..Len(log) : log[i].method = "post" /\ log[i].request = "items"}
Updates(log) ==
    {i \in 1..Len(log) : log[i].method \in MutatingMethods
                            /\ log[i].request = "updateDefinition"}

\* the notebooks are listed and import_notebook_from_web takes its branch
ImportDecides == ImportAt("branch") /\ outcome' # "running"

\* C12: once the content is fetched (status 200) and the notebooks are
\* listed, import_notebook_from_web ends in one of three ways: no notebook
\* has the name, and it requests exactly one creation; a notebook has the
\* name and overwrite is not set, and it raises the already-exists error
\* having requested no creation and no update; a notebook has the name and
\* overwrite is set, and it returns having printed the notice and requested
\* no creation and no update, the notebooks of the workspace left as they
\* were.
C12_ImportOutcomes ==
    [][ImportDecides =>
        LET exists == Len(Named(notebooks, args.notebook_name)) > 0
        IN  /\ response.status = 200
            /\ Creations(calls) = {} /\ Updates(calls) = {}
            /\ ~exists =>
                  /\ Cardinality(Creations(calls')) = 1
                  /\ Updates(calls') = {}
                  /\ outcome' \in {"returned", "FabricHTTPException"}
            /\ (exists /\ ~args.overwrite) =>
                  /\ outcome' = "ValueError: exists"
                  /\ calls' = calls
                  /\ notebooks' = notebooks
            /\ (exists /\ args.overwrite) =>
                  /\ outcome' = "returned"
                  /\ calls' = Append(calls, Notice)
                  /\ notebooks' = notebooks]_vars

\* import_notebook_from_web has returned from a workspace that had a notebook
\* of the name, with overwrite set
C12_Witness ==
    /\ op = "import_notebook_from_web"
    /\ outcome = "returned"
    /\ args.overwrite
    /\ Creations(calls) = {}
    /\ Len(Named(notebooks, args.notebook_name)) > 0

RECURSIVE WithoutFirst(_, _)
\* text s with its first "/" + segment + "/" made one "/"
WithoutFirst(s, segment) ==
    LET old == <<"/">> \o segment \o <<"/">>
    IN  IF Len(s) < Len(old) THEN s
        ELSE IF SubSeq(s, 1, Len(old)) = old
             THEN <<"/">> \o From(s, Len(old))
             ELSE <<s[1]>> \o WithoutFirst(Tail(s), segment)

\* C13: the URL import_notebook_from_web fetches is the url argument when
\* that does not start with https://github.com/; when it does, it is the
\* url with this start replaced by https://raw.githubusercontent.com/ and
\* the /blob/ path segment removed, the rest of the path kept:
\* https://github.com/org/repo/blob/main/nb.ipynb is fetched as
\* https://raw.githubusercontent.com/org/repo/main/nb.ipynb.
C13_FetchUrlRewrite ==
    (op = "import_notebook_from_web" /\ target # None) =>
        /\ calls[Len(calls)].request = "web" => calls[Len(calls)].url = target.v
        /\ ~StartsWith(args.url, GithubPrefix) => target.v = args.url
        /\ StartsWith(args.url, GithubPrefix) =>
              target.v = WithoutFirst(RawPrefix \o From(args.url, Len(GithubPrefix)),
                                      <<"b","l","o","b">>)
        /\ args.url =
              <<"h","t","t","p","s",":","/","/","g","i","t","h","u","b",".",
                "c","o","m","/","o","r","g","/","r","e","p","o","/","b","l",
                "o","b","/","m","a","i","n","/","n","b",".","i","p","y","n",
                "b">>
           => target.v =
              <<"h","t","t","p","s",":","/","/","r","a","w",".","g","i","t",
                "h","u","b","u","s","e","r","c","o","n","t","e","n","t",".",
                "c","o","m","/","o","r","g","/","r","e","p","o","/","m","a",
                "i","n","/","n","b",".","i","p","y","n","b">>

\* the text a part's payload gives the caller: the payload as it is, or the
\* text whose base64 encoding the payload is
GivenBy(part, text, decode) ==
    IF decode THEN B64Encode(Utf8Encode(text)) = part.payload
    ELSE text = part.payload

\* C14: get_notebook_definition returns the payload of the part of the
\* definition whose path starts with notebook-content.: as it is with decode
\* not set, base64-decoded with decode set (aGVsbG8= gives hello); it never
\* returns the payload of a part whose path does not start with the marker.
C14_DefinitionPayload ==
    (op = "get_notebook_definition" /\ outcome = "returned") =>
        LET parts == NamedNotebook.parts
        IN  /\ \E i \in 1..Len(parts) :
                  /\ StartsWith(parts[i].path, notebook_prefix)
                  /\ GivenBy(parts[i], result.v, args.decode)
                  /\ (args.decode /\ parts[i].payload = HelloB64) =>
                        result = PyStr(<<"h","e","l","l","o">>)
            /\ \A i \in 1..Len(parts) :
                  ~StartsWith(parts[i].path, notebook_prefix) =>
                      ~GivenBy(parts[i], result.v, args.decode)

\* get_notebook_definition has returned hello, decoded from aGVsbG8=
C14_Witness ==
    /\ op = "get_notebook_definition"
    /\ outcome = "returned"
    /\ args.decode
    /\ NamedNotebook.parts[1].payload = HelloB64
    /\ result = PyStr(<<"h","e","l","l","o">>)

\* the call in progress sends an updateDefinition request in this step
SendsUpdate ==
    /\ op = "update_notebook_definition"
    /\ Updates(calls') \ Updates(calls) # {}

\* the path of the content part of the notebook the call names, as the
\* service keeps it
CurrentContentPath == MarkedParts(NamedNotebook.parts)[1].path

\* C15: update_notebook_definition sends its updateDefinition request only
\* after it has fetched the current definition of the notebook; the payload
\* of the request has exactly one part, whose path is notebook-content.
\* followed by the extension of the path of the notebook's current content
\* part (the type _get_notebook_type returned), whatever the format
\* argument; a call whose lookup of the type has failed has sent no
\* updateDefinition request.
C15_UpdateKeepsType ==
    /\ [][SendsUpdate =>
            LET parts == calls'[Len(calls')].payload.v["definition"].v["parts"].v
                extension == From(CurrentContentPath,
                                  Last(Positions(CurrentContentPath, ".")))
            IN  /\ \E j \in 1..Len(calls) :
                      calls[j] = NetCall("post", "getDefinition", None)
                /\ Cardinality(Updates(calls')) = 1
                /\ Len(parts) = 1
                /\ cur_type = PyStr(extension)
                /\ parts[1].v["path"] = PyStr(notebook_prefix \o extension)]_vars
    /\ [](op = "update_notebook_definition" /\ Ended /\ pc <= 2
            => Updates(calls) = {} /\ payload = None)

\* update_notebook_definition, called with the format ipynb on a notebook
\* whose content part is notebook-content.py, has returned
C15_Witness ==
    /\ op = "update_notebook_definition"
    /\ outcome = "returned"
    /\ args.format = PyStr("ipynb")
    /\ Updates(calls) # {}
    /\ payload.v["definition"].v["parts"].v[1].v["path"]
          = PyStr(notebook_prefix \o <<"p","y">>)

\* a cell of a table is left empty: it holds a null, or a text of no
\* character
LeftEmpty(cell) == cell = None \/ cell = PyStr(<<>>)

\* the rows of the table the call has returned that are of schedule id
RowsOf(id) ==
    {k \in 1..Len(result.rows) : result.rows[k]["Job Schedule Id"] = id}

\* C16: against a service that stores the submitted configuration and
\* answers it back, the row get_item_schedule returns for the id
\* create_item_schedule returned, and the row list_item_schedules returns for
\* it, has Type equal to the submitted schedule_config_type, Interval equal
\* to the submitted interval for cron, Times filled for daily and weekly,
\* Weekdays equal to the submitted weekdays for weekly, and the columns
\* among Interval, Times and Weekdays that are not of the type left empty.
C16_ScheduleRoundTrip ==
    (op \in ScheduleReadOps /\ outcome = "returned") =>
        /\ \A i \in 1..Len(remote) : RowsOf(PyStr(remote[i].id)) # {}
        /\ op = "get_item_schedule" => RowsOf(target) = {1}
        /\ \A k \in 1..Len(result.rows) :
              LET row == result.rows[k]
                  t == args.schedule_config_type.v
              IN  /\ row["Type"] = args.schedule_config_type
                  /\ t \in CronSpellings =>
                        /\ row["Interval"] = args.interval
                        /\ LeftEmpty(row["Times"])
                        /\ row["Weekdays"] = None
                  /\ t \in DailySpellings =>
                        /\ row["Interval"] = None
                        /\ ~LeftEmpty(row["Times"])
                        /\ row["Weekdays"] = None
                  /\ t \in WeeklySpellings =>
                        /\ row["Interval"] = None
                        /\ args.times # None => ~LeftEmpty(row["Times"])
                        /\ row["Weekdays"] = args.weekdays

\* the POSTs and PATCHes of the call log
Mutations == {i \in 1..Len(calls) : calls[i].method \in MutatingMethods}

\* C17: update_item_schedule checks its arguments and builds its payload as
\* create_item_schedule does: with the same arguments, either both end with
\* the same exception of the checks and send nothing, or both send the same
\* payload, create_item_schedule in one POST to the schedules collection and
\* update_item_schedule in one PATCH to the schedule id it was given, the
\* whole configuration in it.
C17_UpdateAsCreate ==
    (op \in ScheduleOps /\ Ended) =>
        LET checked == Validate(args.schedule_config_type, args.interval, args.times)
            built == create_item_schedule_payload(
                         args.enabled, args.start_date_time, args.end_date_time,
                         args.local_time_zone_id, args.schedule_config_type,
                         args.interval, args.weekdays, args.times)
        IN  IF outcome \in ValidationErrors
            THEN outcome = checked /\ Mutations = {}
            ELSE  /\ checked = "ok"
                  /\ outcome \in {"returned", "FabricHTTPException"} =>
                        /\ Cardinality(Mutations) = 1
                        /\ \A i \in Mutations :
                              /\ calls[i].payload = built
                              /\ op = "create_item_schedule" =>
                                    /\ calls[i].method = "post"
                                    /\ calls[i].request = "schedules"
                              /\ op = "update_item_schedule" =>
                                    /\ calls[i].method = "patch"
                                    /\ calls[i].request = "schedules/id"
                                    /\ calls[i].id = target
                  /\ (op = "update_item_schedule" /\ outcome = "returned") =>
                        \E i \in 1..Len(remote) :
                            remote[i] = [id |-> target.v, body |-> built]

\* update_item_schedule has returned, its PATCH sent with a weekly
\* configuration to a schedule the service knows
C17_Witness ==
    /\ op = "update_item_schedule"
    /\ outcome = "returned"
    /\ Mutations # {}
    /\ args.schedule_config_type.v \in WeeklySpellings
    /\ target.v \in ScheduleIds(remote)

\* the requests of the call log that ask the service for the notebooks of
\* the workspace
NotebookListings(log) ==
    {i \in 1..Len(log) : log[i].request = "items?type=Notebook"}

\* C18: import_notebook_from_web fetches the content before it looks for the
\* notebook and before it creates one: a call has listed the notebooks of
\* the workspace or requested a creation only after a fetch answered 200; a
\* call whose fetch of the rewritten URL is answered another status ends
\* with the transport error of that response, and has neither listed the
\* notebooks nor requested a creation, whatever overwrite is and whether a
\* notebook of the name exists.
C18_FetchFirst ==
    op = "import_notebook_from_web" =>
        /\ \A i \in NotebookListings(calls) \cup Creations(calls) :
              /\ \E j \in 1..(i - 1) : calls[j] = WebCall(FetchUrl(args.url))
              /\ response # None /\ response.status = 200
        /\ (response # None /\ response.status # 200) =>
              /\ outcome = "FabricHTTPException"
              /\ calls[Len(calls)] = WebCall(FetchUrl(args.url))
              /\ NotebookListings(calls) = {}
              /\ Creations(calls) = {}
              /\ Updates(calls) = {}

\* import_notebook_from_web, called with overwrite set for a name that
\* exists, has ended with the transport error of a fetch answered 404
C18_Witness ==
    /\ op = "import_notebook_from_web"
    /\ outcome = "FabricHTTPException"
    /\ response # None /\ response.status = 404
    /\ args.overwrite
    /\ Len(Named(notebooks, args.notebook_name)) > 0

====
